---- MODULE Spec2Model ----
(***************************************************************************)
(* Model of the Zendesk custom-object hooks: the path templating helpers,  *)
(* the transport adapter (createNetworkClient.fire), and the four hooks    *)
(* useQueryCustomObjects, usePostCustomObjects, useUpdateCustomObjects and *)
(* useDeleteCustomObjects, together with the part of the query cache that  *)
(* the hooks drive (fetch on mount, staleness, invalidation).              *)
(*                                                                         *)
(* JavaScript strings are sequences of tokens; a token is a run of         *)
(* characters free of the delimiters / { } . - which are tokens of their   *)
(* own, so that every string has one tokenisation and substring search on  *)
(* tokens is substring search on the text.                                 *)
(***************************************************************************)
EXTENDS Integers, Sequences, FiniteSets, TLC

\* ------------------------------------------------------------------------
\* JavaScript values
\* ------------------------------------------------------------------------
Undef == [t |-> "undefined"]
Null == [t |-> "null"]
Str(s) == [t |-> "string", s |-> s]
Num(n) == [t |-> "number", n |-> n]
Bool(b) == [t |-> "boolean", b |-> b]
Obj(entries) == [t |-> "object", o |-> entries]
Arr(items) == [t |-> "array", a |-> items]
Fn(behaviour) == [t |-> "function", f |-> behaviour]

\* !!v
Truthy(v) ==
  CASE v.t = "undefined" -> FALSE
    [] v.t = "null" -> FALSE
    [] v.t = "string" -> v.s # <<>>
    [] v.t = "number" -> v.n # 0
    [] v.t = "boolean" -> v.b
    [] OTHER -> TRUE

\* typeof v
TypeOf(v) ==
  CASE v.t = "null" -> "object"
    [] v.t = "array" -> "object"
    [] OTHER -> v.t

\* String(v) / template-literal interpolation of v
ToStr(v) ==
  CASE v.t = "string" -> v.s
    [] v.t = "number" -> <<ToString(v.n)>>
    [] v.t = "undefined" -> <<"undefined">>
    [] v.t = "null" -> <<"null">>
    [] v.t = "boolean" -> <<ToString(v.b)>>
    [] OTHER -> <<"[object Object]">>

\* ------------------------------------------------------------------------
\* Bounds
\* ------------------------------------------------------------------------
\* successful writes the remote service accepts per resource key
MaxWrites == 1
\* clock ticks
MaxTicks == 2

\* ------------------------------------------------------------------------
\* utils.ts: path and query templating
\* ------------------------------------------------------------------------
\* index of the first occurrence of pat in s, 0 when there is none
RECURSIVE IndexFrom(_, _, _)
IndexFrom(s, pat, i) ==
  IF i + Len(pat) - 1 > Len(s) THEN 0
  ELSE IF SubSeq(s, i, i + Len(pat) - 1) = pat THEN i
  ELSE IndexFrom(s, pat, i + 1)

\* String.prototype.replace(pattern: string, replacement): first occurrence
ReplaceFirst(s, pat, rep) ==
  LET i == IndexFrom(s, pat, 1)
  IN IF i = 0 THEN s
     ELSE SubSeq(s, 1, i - 1) \o rep \o SubSeq(s, i + Len(pat), Len(s))

\* as convertPathParams, the pattern lacking its braces
RECURSIVE convertPathParamsBareKey(_, _)
convertPathParamsBareKey(path, params) ==
  IF params = <<>> THEN path
  ELSE convertPathParamsBareKey(
         ReplaceFirst(path, params[1].k, ToStr(params[1].v)), Tail(params))

RECURSIVE convertPathParams(_, _)
convertPathParams(path, params) ==
  IF params = <<>> THEN path
  ELSE convertPathParams(
         ReplaceFirst(path, <<"{">> \o params[1].k \o <<"}">>, ToStr(params[1].v)),
         Tail(params))

RECURSIVE JoinPairs(_)
JoinPairs(params) ==
  IF params = <<>> THEN <<>>
  ELSE params[1].k \o <<"=">> \o ToStr(params[1].v)
       \o (IF Len(params) > 1 THEN <<"&">> ELSE <<>>) \o JoinPairs(Tail(params))

convertQueryParams(path, params) == path \o <<"?">> \o JoinPairs(params)

\* ------------------------------------------------------------------------
\* lib/core: createNetworkClient
\* ------------------------------------------------------------------------
baseEndpoint == <<"/", "api", "/", "v2", "/", "custom_objects", "/">>
headers == << [k |-> <<"Content", "-", "Type">>, v |-> <<"application", "/", "json">>] >>
DefaultTimeout == 15000

\* the value a JSON text of v denotes: a property whose value is undefined or
\* a function is left out, such an element of an array is null
RECURSIVE JSONvalue(_)
JSONvalue(v) ==
  CASE v.t = "object" ->
         LET kept == SelectSeq(v.o, LAMBDA e : e.v.t \notin {"undefined", "function"})
         IN Obj([i \in 1..Len(kept) |-> [k |-> kept[i].k, v |-> JSONvalue(kept[i].v)]])
    [] v.t = "array" ->
         Arr([i \in 1..Len(v.a) |->
                IF v.a[i].t \in {"undefined", "function"} THEN Null
                ELSE JSONvalue(v.a[i])])
    [] OTHER -> v

\* JSON.stringify(v): undefined and functions have no JSON text
JSONstringify(v) ==
  IF v.t \in {"undefined", "function"} THEN Undef
  ELSE [t |-> "string", json |-> JSONvalue(v)]

\* as fireUrl, the query appended before the path is templated
fireUrlQueryFirst(customObjectKey, payload) ==
  LET url0 == baseEndpoint \o customObjectKey \o payload.endpoint
      url1 == IF Truthy(payload.params)
              THEN convertQueryParams(url0, payload.params.o) ELSE url0
  IN IF Truthy(payload.pathParams)
     THEN convertPathParams(url1, payload.pathParams.o) ELSE url1

\* the url fire composes for a payload
fireUrl(customObjectKey, payload) ==
  LET url0 == baseEndpoint \o customObjectKey \o payload.endpoint
      url1 == IF Truthy(payload.pathParams)
              THEN convertPathParams(url0, payload.pathParams.o) ELSE url0
  IN IF Truthy(payload.params)
     THEN convertQueryParams(url1, payload.params.o) ELSE url1

\* as fire, the data serialized without the test for null
fireBodyUntested(options, payload) ==
  [ url |-> fireUrl(options.customObjectKey, payload),
    type |-> payload.method,
    data |-> JSONstringify(payload.data),
    timeout |-> IF Truthy(options.timeout) THEN options.timeout.n ELSE DefaultTimeout,
    headers |-> headers,
    secure |-> TRUE ]

\* as fire, the headers sent only with a request that has a body
fireHeadersWithBody(options, payload) ==
  [ url |-> fireUrl(options.customObjectKey, payload),
    type |-> payload.method,
    data |-> IF payload.data # Null THEN JSONstringify(payload.data) ELSE Undef,
    timeout |-> IF Truthy(options.timeout) THEN options.timeout.n ELSE DefaultTimeout,
    headers |-> IF payload.data \notin {Null, Undef} THEN headers ELSE << >>,
    secure |-> TRUE ]

\* the argument fire hands to zaf.request
fire(options, payload) ==
  [ url |-> fireUrl(options.customObjectKey, payload),
    type |-> payload.method,
    data |-> IF payload.data # Null THEN JSONstringify(payload.data) ELSE Undef,
    timeout |-> IF Truthy(options.timeout) THEN options.timeout.n ELSE DefaultTimeout,
    headers |-> headers,
    secure |-> TRUE ]

\* the handle of a client built inside a provider context ctx: options.zaf is
\* ignored, the handle is read from the context again
createNetworkClient(options, ctx) ==
  [ customObjectKey |-> ToStr(options.customObjectKey),
    timeout |-> options.timeout,
    zaf |-> ctx.zaf ]

\* what zaf.request receives from client.fire(payload)
Request(client, payload) == [zaf |-> client.zaf, arg |-> fire(client, payload)]

\* ------------------------------------------------------------------------
\* lib/providers/custom-objects: the context
\* ------------------------------------------------------------------------
NoContext == [zaf |-> "none"]
CustomObjectsProvider(client) == [zaf |-> client]
Contexts ==
  {NoContext, CustomObjectsProvider("zafClient"), CustomObjectsProvider("otherClient")}

ProviderError == <<"useInternalZafClient must be used within CustomObjectsProvider">>
NoError == <<>>

\* as useInternalZafClient, without the test of the context
useInternalZafClientUntested(ctx) == NoError

\* the error useInternalZafClient throws, NoError when it returns the context
useInternalZafClient(ctx) == IF ctx = NoContext THEN ProviderError ELSE NoError

\* ------------------------------------------------------------------------
\* Inputs
\* ------------------------------------------------------------------------
Users == <<"users">>
Orders == <<"orders">>
KeyInputs == {Undef, Str(<<>>), Num(7), Str(Users), Str(Orders)}
ValidKeys == {Str(Users), Str(Orders)}

F1 == Obj(<< [k |-> <<"filter">>, v |-> Str(<<"active">>)] >>)
S1 == Obj(<< [k |-> <<"by">>, v |-> Str(<<"status">>)],
             [k |-> <<"value">>, v |-> Str(<<"active">>)] >>)
FilterInputs == {Undef, Null, F1}
SearchInputs == {Undef, Null, S1}
CallbackInputs == {Undef, Fn("returns")}
SuccessFnInputs == {Undef, Fn("returns"), Fn("throws")}

\* obj[name] for an object given by its entries
RECURSIVE GetEntry(_, _)
GetEntry(entries, name) ==
  IF entries = <<>> THEN Undef
  ELSE IF entries[1].k = name THEN entries[1].v
  ELSE GetEntry(Tail(entries), name)

Get(obj, name) == IF obj.t = "object" THEN GetEntry(obj.o, name) ELSE Undef

\* ------------------------------------------------------------------------
\* State
\* ------------------------------------------------------------------------
VARIABLES
  readers,   \* the useQueryCustomObjects instances, each with the set of
             \* requests its queryFn has issued
  writer,    \* the mounted insert / update / delete hook instance
  cache,     \* the QueryClient's query cache, by query key
  server,    \* writes the remote service has applied, per resource key
  now,       \* Date.now()
  adapter    \* a transport adapter as createNetworkClient returns it, with
             \* the request its latest fire handed to zaf.request

vars == <<readers, writer, cache, server, now, adapter>>

Readers == {1, 2}

\* ------------------------------------------------------------------------
\* hooks/query: useQueryCustomObjects
\* ------------------------------------------------------------------------
KeyError == <<"invalid customObjectKey">>
ChooseError == <<"You must choose either filterCriteria or searchBySingleField">>

\* as invalidKey, without the typeof test
invalidKeyFalsyOnly(customObjectKey) == ~Truthy(customObjectKey)

invalidKey(customObjectKey) ==
  ~Truthy(customObjectKey) \/ TypeOf(customObjectKey) # "string"

\* as useQueryThrows, without the test of filter against search
useQueryThrowsNoChoice(params, ctx) ==
  IF invalidKey(params.customObjectKey) THEN KeyError
  ELSE IF useInternalZafClient(ctx) # NoError THEN ProviderError
  ELSE NoError

\* the error the body of useQueryCustomObjects throws before useQuery
useQueryThrows(params, ctx) ==
  IF invalidKey(params.customObjectKey) THEN KeyError
  ELSE IF useInternalZafClient(ctx) # NoError THEN ProviderError
  ELSE IF Truthy(params.filterCriteria) /\ Truthy(params.searchBySingleField)
       THEN ChooseError
  ELSE NoError

\* as filterKey, without the custom_object_fields prefix
filterKeyBare(searchBySingleField) == ToStr(Get(searchBySingleField, <<"by">>))

filterKey(searchBySingleField) ==
  <<"custom_object_fields", ".">> \o ToStr(Get(searchBySingleField, <<"by">>))

criteria(params) ==
  IF Truthy(params.searchBySingleField)
  THEN Obj(<< [k |-> <<"$and">>,
               v |-> Arr(<< Obj(<< [k |-> filterKey(params.searchBySingleField),
                                    v |-> Obj(<< [k |-> <<"$eq">>,
                                                 v |-> Get(params.searchBySingleField,
                                                           <<"value">>)] >>)] >>) >>)] >>)
  ELSE IF Truthy(params.filterCriteria) THEN params.filterCriteria
  ELSE Obj(<< >>)

queryKey(customObjectKey) ==
  << Str(<<"query", "-", "custom", "-", "objects", "-">> \o ToStr(customObjectKey)),
     customObjectKey >>

\* the payload queryFn hands to client.fire
queryPayload(params) ==
  [ data |-> criteria(params),
    endpoint |-> <<"/", "{", "customObjectKey", "}", "/", "records", "/", "search">>,
    pathParams |-> Obj(<< [k |-> <<"customObjectKey">>, v |-> params.customObjectKey] >>),
    params |-> Undef,
    method |-> "POST" ]

\* the request one call of the hook's queryFn issues
queryFn(params, ctx) ==
  Request(createNetworkClient([customObjectKey |-> params.customObjectKey,
                               timeout |-> Undef], ctx),
          queryPayload(params))

\* the value of translateFn(data)
Translated(translateFn, data) == [t |-> "translated", by |-> translateFn.f, of |-> data]

\* as transformedData, translateFn called whatever the data
transformedDataUnguarded(params, data) ==
  IF Truthy(params.translateFn)
  THEN [ data |-> Translated(params.translateFn, data), translated |-> <<data>> ]
  ELSE [ data |-> data, translated |-> <<>> ]

\* the data of the hook's return value in a render where useQuery returns
\* `data`, and the arguments translateFn was called with in that render
transformedData(params, data) ==
  IF Truthy(params.translateFn)
  THEN IF Truthy(data)
       THEN [ data |-> Translated(params.translateFn, data), translated |-> <<data>> ]
       ELSE [ data |-> Arr(<< >>), translated |-> << >> ]
  ELSE [ data |-> data, translated |-> << >> ]

staleTime == 1000 * 60 * 1

TickMs == staleTime \div 2

\* an option of useQuery: the hook's own value unless reactQueryOptions,
\* spread last, carries the name
Option(params, name, own) ==
  IF Get(params.reactQueryOptions, name) # Undef
  THEN Get(params.reactQueryOptions, name) ELSE own

staleTimeOf(params) == Option(params, <<"staleTime">>, Num(staleTime)).n
refetchOnWindowFocusOf(params) ==
  Option(params, <<"refetchOnWindowFocus">>, params.refetchOnTabChange)

\* ------------------------------------------------------------------------
\* The query cache the hooks share (QueryClient)
\* ------------------------------------------------------------------------
NoRequest == [zaf |-> "none"]
\* useQuery's data before the first response
NoData == Undef
NoEntry ==
  [ hasData |-> FALSE, data |-> NoData, dataUpdatedAt |-> 0,
    isInvalidated |-> FALSE, inflight |-> NoRequest, owner |-> 0 ]

QueryKeys == {queryKey(k) : k \in KeyInputs}
KeyStrs == {ToStr(k) : k \in KeyInputs}

\* partialMatchKey(a, b): b is a prefix of a
partialMatchKey(a, b) ==
  /\ Len(b) <= Len(a)
  /\ \A i \in 1..Len(b) : a[i] = b[i]

\* as isStale, the window being the library's default of zero
isStaleDefaultWindow(entry, staleMs) ==
  \/ ~entry.hasData
  \/ entry.isInvalidated
  \/ now - entry.dataUpdatedAt >= 0

isStale(entry, staleMs) ==
  \/ ~entry.hasData
  \/ entry.isInvalidated
  \/ now - entry.dataUpdatedAt >= staleMs

NoQueryParams ==
  [ customObjectKey |-> Undef, filterCriteria |-> Undef,
    searchBySingleField |-> Undef, translateFn |-> Undef,
    refetchOnTabChange |-> Bool(FALSE), reactQueryOptions |-> Undef ]

UnmountedReader ==
  [ status |-> "unmounted", params |-> NoQueryParams, ctx |-> NoContext,
    error |-> NoError, sent |-> {}, data |-> Undef, translated |-> << >> ]

QueryOptionInputs == {Undef, Obj(<< [k |-> <<"staleTime">>, v |-> Num(0)] >>)}

QueryParamInputs ==
  [ customObjectKey : KeyInputs, filterCriteria : FilterInputs,
    searchBySingleField : SearchInputs, translateFn : CallbackInputs,
    refetchOnTabChange : {Bool(FALSE), Bool(TRUE)},
    reactQueryOptions : QueryOptionInputs ]

Mounted(r) == readers[r].status = "mounted"
keyOf(r) == queryKey(readers[r].params.customObjectKey)
requestOf(r) == queryFn(readers[r].params, readers[r].ctx)

\* as fetchOnMount, a response cached for other criteria fetched again
fetchOnMountPerCriteria(entry, params) ==
  /\ entry.inflight = NoRequest
  /\ \/ isStale(entry, staleTimeOf(params))
     \/ entry.data.body # JSONstringify(criteria(params))

\* a hook mounting on the entry of its query key fetches when the entry is
\* stale and no fetch of it is in flight: the criteria are no part of the key
fetchOnMount(entry, params) ==
  /\ entry.inflight = NoRequest
  /\ isStale(entry, staleTimeOf(params))

\* first render of useQueryCustomObjects(params) under context ctx
MountQuery(r, params, ctx) ==
  /\ readers[r].status = "unmounted"
  /\ LET err == useQueryThrows(params, ctx)
         qk == queryKey(params.customObjectKey)
         req == queryFn(params, ctx)
         fetchNow == fetchOnMount(cache[qk], params)
     IN IF err # NoError
        THEN /\ readers' = [readers EXCEPT ![r] =
                  [ status |-> "failed", params |-> params, ctx |-> ctx,
                    error |-> err, sent |-> {}, data |-> Undef,
                    translated |-> << >> ]]
             /\ UNCHANGED cache
        ELSE /\ readers' = [readers EXCEPT ![r] =
                  [ status |-> "mounted", params |-> params, ctx |-> ctx,
                    error |-> NoError,
                    sent |-> IF fetchNow THEN {req} ELSE {},
                    data |-> transformedData(params, cache[qk].data).data,
                    translated |->
                      transformedData(params, cache[qk].data).translated ]]
             /\ cache' = [cache EXCEPT ![qk] =
                  [@ EXCEPT !.owner = r,
                            !.inflight = IF fetchNow THEN req ELSE @]]
  /\ UNCHANGED <<writer, server, now, adapter>>

\* the component using the hook leaves the tree
UnmountQuery(r) ==
  /\ readers[r].status # "unmounted"
  /\ readers' = [readers EXCEPT ![r] = UnmountedReader]
  /\ cache' =
       IF Mounted(r) /\ cache[keyOf(r)].owner = r
       THEN LET others == {o \in Readers \ {r} : Mounted(o) /\ keyOf(o) = keyOf(r)}
            IN [cache EXCEPT ![keyOf(r)].owner =
                  IF others = {} THEN 0 ELSE CHOOSE o \in others : TRUE]
       ELSE cache
  /\ UNCHANGED <<writer, server, now, adapter>>

\* the response of the service to a search: the records it holds that the
\* request's body selects
Response(qk, request) ==
  [t |-> "object", v |-> server[ToStr(qk[2])], body |-> request.arg.data]

\* zaf.request of a search resolves with the records the service holds, and
\* the hooks observing the query render with them
QueryResolves(qk) ==
  /\ cache[qk].inflight # NoRequest
  /\ cache' = [cache EXCEPT ![qk] =
       [@ EXCEPT !.hasData = TRUE,
                 !.data = Response(qk, cache[qk].inflight),
                 !.dataUpdatedAt = now,
                 !.isInvalidated = FALSE,
                 !.inflight = NoRequest]]
  /\ readers' = [r \in Readers |->
       IF Mounted(r) /\ keyOf(r) = qk
       THEN [readers[r] EXCEPT
               !.data = transformedData(readers[r].params,
                                        Response(qk, cache[qk].inflight)).data,
               !.translated = transformedData(readers[r].params,
                                              Response(qk, cache[qk].inflight)).translated]
       ELSE readers[r]]
  /\ UNCHANGED <<writer, server, now, adapter>>

\* zaf.request of a search fails
QueryRejects(qk) ==
  /\ cache[qk].inflight # NoRequest
  /\ cache' = [cache EXCEPT ![qk].inflight = NoRequest]
  /\ UNCHANGED <<readers, writer, server, now, adapter>>

\* refetch() of the hook's return value
Refetch(r) ==
  /\ Mounted(r)
  /\ ~(cache[keyOf(r)].inflight # NoRequest /\ ~cache[keyOf(r)].hasData)
  /\ cache' = [cache EXCEPT ![keyOf(r)] =
                 [@ EXCEPT !.inflight = requestOf(r), !.owner = r]]
  /\ readers' = [readers EXCEPT ![r].sent = @ \cup {requestOf(r)}]
  /\ UNCHANGED <<writer, server, now, adapter>>

\* the window regains focus: a mounted hook refetches when its
\* refetchOnWindowFocus option is set and its query is stale
FocusRefetches(r) ==
  /\ Mounted(r)
  /\ Truthy(refetchOnWindowFocusOf(readers[r].params))
  /\ isStale(cache[keyOf(r)], staleTimeOf(readers[r].params))
  /\ cache[keyOf(r)].inflight = NoRequest

WindowFocus ==
  /\ \E r \in Readers : FocusRefetches(r)
  /\ \E picked \in SUBSET {r \in Readers : FocusRefetches(r)} :
       \* one observer of each stale query refetches
       /\ \A r \in Readers : FocusRefetches(r) =>
            \E p \in picked : keyOf(p) = keyOf(r)
       /\ \A p, q \in picked : keyOf(p) = keyOf(q) => p = q
       /\ cache' = [qk \in QueryKeys |->
            IF \E p \in picked : keyOf(p) = qk
            THEN LET p == CHOOSE p \in picked : keyOf(p) = qk
                 IN [cache[qk] EXCEPT !.inflight = requestOf(p), !.owner = p]
            ELSE cache[qk]]
       /\ readers' = [r \in Readers |->
            IF r \in picked
            THEN [readers[r] EXCEPT !.sent = @ \cup {requestOf(r)}]
            ELSE readers[r]]
  /\ UNCHANGED <<writer, server, now, adapter>>

\* time passes
Tick ==
  /\ now < MaxTicks * TickMs
  /\ now' = now + TickMs
  /\ UNCHANGED <<readers, writer, cache, server, adapter>>

\* ------------------------------------------------------------------------
\* hooks/insert, hooks/custom-objects/update, hooks/remove
\* ------------------------------------------------------------------------
NameError == <<"name is required and must be a string">>
FieldsError == <<"custom_object_fields is required and must be an object">>
UpdateIdError == <<"invalid recordId - must be provided in the mapped data">>
DeleteIdError == <<"invalid record id">>
CallbackError == <<"onSuccessFn failed">>

NameInputs == {Undef, Str(<<>>), Num(5), Str(<<"x">>)}
FieldsInputs ==
  {Undef, Null, Num(1), Obj(<< >>), Obj(<< [k |-> <<"a">>, v |-> Num(1)] >>)}
IdInputs == {Undef, Str(<<>>), Num(42), Str(<<"42">>), Str(<<"01HZX">>)}

NoMutationParams ==
  [customObjectKey |-> Undef, postActionFn |-> Undef, onSuccessFn |-> Undef]
NoVars == [name |-> Undef, custom_object_fields |-> Undef, id |-> Undef]

NoWriter ==
  [ kind |-> "none", status |-> "unmounted", params |-> NoMutationParams,
    ctx |-> NoContext, vars |-> NoVars, error |-> NoError, thrown |-> NoError,
    sent |-> <<>>, events |-> <<>> ]

MutationParamInputs(kind) ==
  [ customObjectKey : KeyInputs, postActionFn : CallbackInputs,
    onSuccessFn : IF kind = "insert" THEN {Undef} ELSE SuccessFnInputs ]

VarsInputs(kind) ==
  CASE kind = "insert" ->
         [name : NameInputs, custom_object_fields : FieldsInputs, id : {Undef}]
    [] kind = "update" ->
         [name : NameInputs, custom_object_fields : FieldsInputs, id : IdInputs]
    [] OTHER ->
         [name : {Undef}, custom_object_fields : {Undef}, id : IdInputs]

\* the error the body of a mutation hook throws before useMutation
useMutationHookThrows(params, ctx) ==
  IF invalidKey(params.customObjectKey) THEN KeyError
  ELSE IF useInternalZafClient(ctx) # NoError THEN ProviderError
  ELSE NoError

\* as insertThrows, testing the types only
insertThrowsTypeOnly(input) ==
  IF TypeOf(input.name) # "string" THEN NameError
  ELSE IF TypeOf(input.custom_object_fields) # "object" THEN FieldsError
  ELSE NoError

\* the error mutationFn throws before client.fire
insertThrows(input) ==
  IF ~Truthy(input.name) \/ TypeOf(input.name) # "string" THEN NameError
  ELSE IF ~Truthy(input.custom_object_fields)
          \/ TypeOf(input.custom_object_fields) # "object" THEN FieldsError
  ELSE NoError

\* as invalidId, without the typeof test
invalidIdFalsyOnly(id) == ~Truthy(id)

invalidId(id) == ~Truthy(id) \/ TypeOf(id) # "string"

updateThrows(v) == IF invalidId(v.id) THEN UpdateIdError ELSE NoError
deleteThrows(v) == IF invalidId(v.id) THEN DeleteIdError ELSE NoError

mutationFnThrows(kind, v) ==
  CASE kind = "insert" -> insertThrows(v)
    [] kind = "update" -> updateThrows(v)
    [] OTHER -> deleteThrows(v)

insertPayload(customObjectKey, input) ==
  [ endpoint |-> <<"/", "records">>,
    pathParams |-> Obj(<< [k |-> <<"customObjectKey">>, v |-> customObjectKey] >>),
    params |-> Undef,
    method |-> "POST",
    data |-> Obj(<< [k |-> <<"custom_object_record">>,
                     v |-> Obj(<< [k |-> <<"name">>, v |-> input.name],
                                  [k |-> <<"custom_object_fields">>,
                                   v |-> input.custom_object_fields] >>)] >>) ]

\* as updateBody, the name assigned whatever its value
updateBodyAlwaysName(input) ==
  Obj(<< [k |-> <<"custom_object_record">>,
          v |-> Obj(<< [k |-> <<"custom_object_fields">>,
                        v |-> input.custom_object_fields],
                       [k |-> <<"name">>, v |-> input.name] >>)] >>)

updateBody(input) ==
  Obj(<< [k |-> <<"custom_object_record">>,
          v |-> Obj(<< [k |-> <<"custom_object_fields">>,
                        v |-> input.custom_object_fields] >>
                    \o (IF Truthy(input.name)
                        THEN << [k |-> <<"name">>, v |-> input.name] >>
                        ELSE << >>))] >>)

updatePayload(v) ==
  [ data |-> updateBody(v),
    endpoint |-> <<"/", "records", "/", "{", "id", "}">>,
    method |-> "PUT",
    pathParams |-> Obj(<< [k |-> <<"id">>, v |-> v.id] >>),
    params |-> Undef ]

deletePayload(v) ==
  [ method |-> "DELETE",
    endpoint |-> <<"/", "records", "/", "{", "id", "}">>,
    pathParams |-> Obj(<< [k |-> <<"id">>, v |-> v.id] >>),
    params |-> Undef,
    data |-> Null ]

mutationPayload(kind, customObjectKey, v) ==
  CASE kind = "insert" -> insertPayload(customObjectKey, v)
    [] kind = "update" -> updatePayload(v)
    [] OTHER -> deletePayload(v)

\* as invalidationKey, with another tag than the query hook's
invalidationKeyOtherTag(customObjectKey) ==
  << Str(<<"custom", "-", "objects", "-">> \o ToStr(customObjectKey)) >>

\* the filter the insert and delete hooks hand to invalidateQueries
invalidationKey(customObjectKey) ==
  << Str(<<"query", "-", "custom", "-", "objects", "-">> \o ToStr(customObjectKey)) >>

Invalidation(customObjectKey) ==
  [e |-> "invalidateQueries", fn |-> Fn("returns"),
   arg |-> invalidationKey(customObjectKey)[1]]

\* as insertOnSuccess, the callback before the invalidation
insertOnSuccessCallbackFirst(params, v) ==
  << [e |-> "postActionFn", fn |-> params.postActionFn, arg |-> Undef],
     Invalidation(params.customObjectKey) >>

\* the statements of each onSuccess handler, in program order
insertOnSuccess(params, v) ==
  << Invalidation(params.customObjectKey),
     [e |-> "postActionFn", fn |-> params.postActionFn, arg |-> Undef] >>

\* as updateOnSuccess, onSuccessFn called without the identifier
updateOnSuccessNoId(params, v) ==
  << [e |-> "onSuccessFn", fn |-> params.onSuccessFn, arg |-> Undef],
     [e |-> "postActionFn", fn |-> params.postActionFn, arg |-> Undef] >>

updateOnSuccess(params, v) ==
  << [e |-> "onSuccessFn", fn |-> params.onSuccessFn, arg |-> v.id],
     [e |-> "postActionFn", fn |-> params.postActionFn, arg |-> Undef] >>

\* as deleteOnSuccess, the invalidation before onSuccessFn
deleteOnSuccessInvalidateFirst(params, v) ==
  << Invalidation(params.customObjectKey),
     [e |-> "onSuccessFn", fn |-> params.onSuccessFn, arg |-> Undef],
     [e |-> "postActionFn", fn |-> params.postActionFn, arg |-> Undef] >>

deleteOnSuccess(params, v) ==
  << [e |-> "onSuccessFn", fn |-> params.onSuccessFn, arg |-> Undef],
     Invalidation(params.customObjectKey),
     [e |-> "postActionFn", fn |-> params.postActionFn, arg |-> Undef] >>

onSuccess(kind, params, v) ==
  CASE kind = "insert" -> insertOnSuccess(params, v)
    [] kind = "update" -> updateOnSuccess(params, v)
    [] OTHER -> deleteOnSuccess(params, v)

\* as Run, a call that throws not ending the handler
RECURSIVE RunPastThrow(_)
RunPastThrow(steps) ==
  IF steps = <<>> THEN <<>>
  ELSE IF ~Truthy(steps[1].fn) THEN RunPastThrow(Tail(steps))
  ELSE <<steps[1]>> \o RunPastThrow(Tail(steps))

\* the calls a handler makes: a statement guarded by `if (fn)` is skipped when
\* fn is absent, and a call that throws ends the handler
RECURSIVE Run(_)
Run(steps) ==
  IF steps = <<>> THEN <<>>
  ELSE IF ~Truthy(steps[1].fn) THEN Run(Tail(steps))
  ELSE IF steps[1].fn.f = "throws" THEN <<steps[1]>>
  ELSE <<steps[1]>> \o Run(Tail(steps))

Threw(calls) == calls # <<>> /\ calls[Len(calls)].fn.f = "throws"

\* as onError, update and delete appending the cause to their message
onErrorWithCause(kind, customObjectKey, error) ==
  CASE kind = "insert" -> error
    [] kind = "update" ->
         <<"Error updating custom object record with key ">> \o ToStr(customObjectKey)
         \o <<": ">> \o error
    [] OTHER ->
         <<"Error deleting custom object record with key ">> \o ToStr(customObjectKey)
         \o <<": ">> \o error

\* as onError, insert throwing a fixed error as update and delete do
onErrorInsertThrows(kind, customObjectKey, error) ==
  CASE kind = "insert" ->
         <<"Error creating custom object record with key ">> \o ToStr(customObjectKey)
    [] kind = "update" ->
         <<"Error updating custom object record with key ">> \o ToStr(customObjectKey)
    [] OTHER ->
         <<"Error deleting custom object record with key ">> \o ToStr(customObjectKey)

\* the error execute rejects with after onError has handled a failure: insert
\* logs it, update and delete throw a fixed error in its place
onError(kind, customObjectKey, error) ==
  CASE kind = "insert" -> error
    [] kind = "update" ->
         <<"Error updating custom object record with key ">> \o ToStr(customObjectKey)
    [] OTHER ->
         <<"Error deleting custom object record with key ">> \o ToStr(customObjectKey)

\* as fireThrows, a status counting as one whenever the error has the field
fireThrowsAnyStatus(error) ==
  IF Get(error, <<"status">>) = Undef THEN Str(ToStr(error)) ELSE error

\* the argument of the Error fire throws for a failure of zaf.request
fireThrows(error) ==
  IF ~Truthy(Get(error, <<"status">>)) THEN Str(ToStr(error)) ELSE error

\* the message of the error fire throws for a failure of zaf.request
fireError(error) ==
  IF ~Truthy(Get(error, <<"status">>)) THEN ToStr(error)
  ELSE <<"[object Object]">>

TransportErrors ==
  { Str(<<"timeout">>), Obj(<< [k |-> <<"status">>, v |-> Num(404)] >>) }

\* queryClient.invalidateQueries({queryKey: filter}): every matching query is
\* marked invalidated, and one with a mounted observer is refetched
invalidateQueries(c, filter) ==
  [qk \in QueryKeys |->
     IF ~partialMatchKey(qk, filter) THEN c[qk]
     ELSE IF c[qk].owner = 0 \/ (c[qk].inflight # NoRequest /\ ~c[qk].hasData)
     THEN [c[qk] EXCEPT !.isInvalidated = TRUE]
     ELSE [c[qk] EXCEPT !.isInvalidated = TRUE,
                        !.inflight = requestOf(c[qk].owner)]]

\* the readers after the refetches of invalidateQueries
refetchedReaders(c, filter) ==
  [r \in Readers |->
     IF /\ Mounted(r)
        /\ partialMatchKey(keyOf(r), filter)
        /\ c[keyOf(r)].owner = r
        /\ ~(c[keyOf(r)].inflight # NoRequest /\ ~c[keyOf(r)].hasData)
     THEN [readers[r] EXCEPT !.sent = @ \cup {requestOf(r)}]
     ELSE readers[r]]

Kinds == {"insert", "update", "delete"}

\* first render of a mutation hook under context ctx
MountMutation(kind, params, ctx) ==
  /\ writer.kind = "none"
  /\ LET err == useMutationHookThrows(params, ctx)
     IN writer' = [NoWriter EXCEPT !.kind = kind, !.params = params, !.ctx = ctx,
                                   !.status = IF err # NoError THEN "failed" ELSE "idle",
                                   !.error = err, !.thrown = err]
  /\ UNCHANGED <<readers, cache, server, now, adapter>>

UnmountMutation ==
  /\ writer.kind # "none"
  /\ writer.status \notin {"pending", "applied"}
  /\ writer' = NoWriter
  /\ UNCHANGED <<readers, cache, server, now, adapter>>

writerClient ==
  createNetworkClient([customObjectKey |-> writer.params.customObjectKey,
                       timeout |-> Undef], writer.ctx)

\* execute(v): mutationFn up to its await of client.fire
Execute(v) ==
  /\ writer.status \in {"idle", "success", "error"}
  /\ LET err == mutationFnThrows(writer.kind, v)
         req == Request(writerClient,
                        mutationPayload(writer.kind, writer.params.customObjectKey, v))
     IN IF err # NoError
        THEN writer' = [writer EXCEPT !.status = "error", !.vars = v,
                          !.error = err,
                          !.thrown = onError(writer.kind, writer.params.customObjectKey, err),
                          !.sent = <<>>, !.events = <<>>]
        ELSE /\ server[ToStr(writer.params.customObjectKey)] < MaxWrites
             /\ writer' = [writer EXCEPT !.status = "pending", !.vars = v,
                             !.error = NoError, !.thrown = NoError,
                             !.sent = <<req>>, !.events = <<>>]
  /\ UNCHANGED <<readers, cache, server, now, adapter>>

\* as ServerApplies, the cached reads of the key invalidated with the write
ServerAppliesInvalidating ==
  /\ writer.status = "pending"
  /\ writer' = [writer EXCEPT !.status = "applied"]
  /\ server' = [server EXCEPT ![ToStr(writer.params.customObjectKey)] = @ + 1]
  /\ cache' = invalidateQueries(cache, invalidationKey(writer.params.customObjectKey))
  /\ readers' = refetchedReaders(cache, invalidationKey(writer.params.customObjectKey))
  /\ UNCHANGED <<now, adapter>>

\* the remote service applies the write
ServerApplies ==
  /\ writer.status = "pending"
  /\ writer' = [writer EXCEPT !.status = "applied"]
  /\ server' = [server EXCEPT ![ToStr(writer.params.customObjectKey)] = @ + 1]
  /\ UNCHANGED <<readers, cache, now, adapter>>

\* zaf.request resolves: mutationFn returns and onSuccess runs
Resolve ==
  /\ writer.status = "applied"
  /\ LET calls == Run(onSuccess(writer.kind, writer.params, writer.vars))
         invalidates == \E i \in 1..Len(calls) : calls[i].e = "invalidateQueries"
         filter == invalidationKey(writer.params.customObjectKey)
     IN /\ writer' = [writer EXCEPT
               !.events = calls,
               !.status = IF Threw(calls) THEN "error" ELSE "success",
               !.error = IF Threw(calls) THEN CallbackError ELSE NoError,
               !.thrown = IF Threw(calls)
                          THEN onError(writer.kind, writer.params.customObjectKey,
                                       CallbackError)
                          ELSE NoError]
        /\ cache' = IF invalidates THEN invalidateQueries(cache, filter) ELSE cache
        /\ readers' = IF invalidates THEN refetchedReaders(cache, filter) ELSE readers
  /\ UNCHANGED <<server, now, adapter>>

\* as Reject, the success handler run for a failure as well
RejectRunningOnSuccess(error) ==
  /\ writer.status = "pending"
  /\ LET calls == Run(onSuccess(writer.kind, writer.params, writer.vars))
         invalidates == \E i \in 1..Len(calls) : calls[i].e = "invalidateQueries"
         filter == invalidationKey(writer.params.customObjectKey)
     IN /\ writer' = [writer EXCEPT
               !.status = "error",
               !.events = calls,
               !.error = fireError(error),
               !.thrown = onError(writer.kind, writer.params.customObjectKey,
                                  fireError(error))]
        /\ cache' = IF invalidates THEN invalidateQueries(cache, filter) ELSE cache
        /\ readers' = IF invalidates THEN refetchedReaders(cache, filter) ELSE readers
  /\ UNCHANGED <<server, now, adapter>>

\* zaf.request fails: fire throws, mutationFn rejects and onError runs
Reject(error) ==
  /\ writer.status = "pending"
  /\ writer' = [writer EXCEPT
         !.status = "error",
         !.error = fireError(error),
         !.thrown = onError(writer.kind, writer.params.customObjectKey, fireError(error))]
  /\ UNCHANGED <<readers, cache, server, now, adapter>>

\* ------------------------------------------------------------------------
\* lib/core: a transport adapter used by itself
\* ------------------------------------------------------------------------
NoClient == [customObjectKey |-> <<>>, timeout |-> Undef, zaf |-> "none"]
NoPayload ==
  [endpoint |-> <<>>, pathParams |-> Undef, params |-> Undef, method |-> "", data |-> Undef]
NoRejection == [t |-> "none"]

\* an adapter with the payload and the request of its latest fire, how that
\* fire ended, and what zaf.request rejected with and fire threw
NoAdapter ==
  [ status |-> "none", client |-> NoClient, payload |-> NoPayload,
    request |-> NoRequest, outcome |-> "none", rejection |-> NoRejection,
    thrown |-> NoRejection, error |-> NoError ]

TimeoutInputs == {Undef, Num(0), Num(5000)}
AdapterOptionInputs == [customObjectKey : {Str(Users)}, timeout : TimeoutInputs]

PayloadInputs ==
  [ endpoint : { <<"/", "records">>, <<"/", "records", "/", "{", "id", "}">>,
                 <<"/", "records", "/", "{", "id", "}", "/", "{", "id", "}">> },
    pathParams : { Undef, Obj(<< [k |-> <<"id">>, v |-> Str(<<"42">>)] >>),
                   Obj(<< [k |-> <<"other">>, v |-> Num(7)] >>) },
    params : { Undef, Obj(<< [k |-> <<"a">>, v |-> Num(1)],
                             [k |-> <<"b">>, v |-> Str(<<"x">>)] >>),
             Obj(<< [k |-> <<"q">>, v |-> Str(<<"{", "id", "}">>)] >>) },
    method : {"POST", "DELETE"},
    data : { Undef, Null, Fn("returns"), Obj(<< >>),
             Obj(<< [k |-> <<"a">>, v |-> Num(1)] >>) } ]

\* what zaf.request rejects with: a message, a response with a status, a
\* response whose status is 0, an object without a status
AdapterErrors ==
  TransportErrors
  \cup { Obj(<< [k |-> <<"status">>, v |-> Num(0)],
                [k |-> <<"statusText">>, v |-> Str(<<"error">>)] >>),
         Obj(<< [k |-> <<"message">>, v |-> Str(<<"offline">>)] >>) }

\* createNetworkClient(options) in a render under context ctx
CreateAdapter(options, ctx) ==
  /\ adapter.status = "none"
  /\ adapter' =
       IF useInternalZafClient(ctx) # NoError
       THEN [NoAdapter EXCEPT !.status = "failed", !.error = ProviderError]
       ELSE [NoAdapter EXCEPT !.status = "ready",
                              !.client = createNetworkClient(options, ctx)]
  /\ UNCHANGED <<readers, writer, cache, server, now>>

\* the adapter goes out of use
DiscardAdapter ==
  /\ adapter.status \in {"failed", "ready"}
  /\ adapter' = NoAdapter
  /\ UNCHANGED <<readers, writer, cache, server, now>>

\* client.fire(payload) up to its await of zaf.request
Fire(payload) ==
  /\ adapter.status = "ready"
  /\ adapter' = [adapter EXCEPT !.status = "firing",
                                !.payload = payload,
                                !.request = Request(adapter.client, payload),
                                !.outcome = "none",
                                !.rejection = NoRejection,
                                !.thrown = NoRejection,
                                !.error = NoError]
  /\ UNCHANGED <<readers, writer, cache, server, now>>

\* zaf.request resolves and fire returns its value
FireResolves ==
  /\ adapter.status = "firing"
  /\ adapter' = [adapter EXCEPT !.status = "ready", !.outcome = "returned"]
  /\ UNCHANGED <<readers, writer, cache, server, now>>

\* zaf.request rejects and fire throws the error it makes of the rejection
FireRejects(error) ==
  /\ adapter.status = "firing"
  /\ adapter' = [adapter EXCEPT !.status = "ready",
                                !.outcome = "threw",
                                !.rejection = error,
                                !.thrown = [t |-> "Error", arg |-> fireThrows(error)],
                                !.error = fireError(error)]
  /\ UNCHANGED <<readers, writer, cache, server, now>>

\* ------------------------------------------------------------------------
\* Specifications
\* ------------------------------------------------------------------------
Init ==
  /\ readers = [r \in Readers |-> UnmountedReader]
  /\ writer = NoWriter
  /\ cache = [qk \in QueryKeys |-> NoEntry]
  /\ server = [k \in KeyStrs |-> 0]
  /\ now = 0
  /\ adapter = NoAdapter

Provider == CustomObjectsProvider("zafClient")
ValidVars ==
  [ name |-> Str(<<"x">>),
    custom_object_fields |-> Obj(<< [k |-> <<"a">>, v |-> Num(1)] >>),
    id |-> Str(<<"42">>) ]
ValidVarsOf(kind) ==
  CASE kind = "insert" -> {[ValidVars EXCEPT !.id = Undef]}
    [] kind = "update" -> {ValidVars}
    [] OTHER -> {[NoVars EXCEPT !.id = ValidVars.id]}

\* the steps of the transport and of the remote service
Transport ==
  \/ \E qk \in QueryKeys : QueryResolves(qk)
  \/ \E qk \in QueryKeys : QueryRejects(qk)
  \/ ServerApplies
  \/ Resolve
  \/ \E error \in TransportErrors : Reject(error)

\* Spec: a query hook, reading either resource key, and a mutation hook
\* writing the users key, over the shared cache; every hook is constructed
\* with valid parameters inside the provider
SharedQueryParams ==
  [ customObjectKey : ValidKeys, filterCriteria : {Undef},
    searchBySingleField : {Undef}, translateFn : {Fn("returns")},
    refetchOnTabChange : {Bool(FALSE), Bool(TRUE)},
    reactQueryOptions : {Undef} ]
SharedMutationParams(kind) ==
  [ customObjectKey : {Str(Users)},
    postActionFn : IF kind = "insert" THEN CallbackInputs ELSE {Fn("returns")},
    onSuccessFn : CASE kind = "insert" -> {Undef}
                    [] kind = "update" -> {Fn("returns")}
                    [] OTHER -> SuccessFnInputs ]

Next ==
  \/ \E params \in SharedQueryParams : MountQuery(1, params, Provider)
  \/ UnmountQuery(1)
  \/ WindowFocus
  \/ Tick
  \/ \E kind \in Kinds : \E params \in SharedMutationParams(kind) :
       MountMutation(kind, params, Provider)
  \/ UnmountMutation
  \/ \E v \in ValidVarsOf(writer.kind) : Execute(v)
  \/ Transport

Spec == Init /\ [][Next]_vars

\* SpecKeys: one query hook and one mutation hook, constructed with every
\* kind of resource key, inside and outside the provider
KeysQueryParams ==
  [ customObjectKey : KeyInputs \ {Str(Orders)}, filterCriteria : {Undef},
    searchBySingleField : {Undef}, translateFn : {Fn("returns")},
    refetchOnTabChange : {Bool(TRUE)}, reactQueryOptions : {Undef} ]
KeysMutationParams ==
  [ customObjectKey : KeyInputs \ {Str(Orders)}, postActionFn : {Undef},
    onSuccessFn : {Undef} ]

NextKeys ==
  \/ \E params \in KeysQueryParams, ctx \in Contexts : MountQuery(1, params, ctx)
  \/ UnmountQuery(1)
  \/ Refetch(1)
  \/ \E kind \in Kinds : \E params \in KeysMutationParams, ctx \in Contexts :
       MountMutation(kind, params, ctx)
  \/ UnmountMutation
  \/ \E v \in ValidVarsOf(writer.kind) : Execute(v)
  \/ Transport

SpecKeys == Init /\ [][NextKeys]_vars

\* SpecQuery: one query hook constructed with every combination of filter
\* and single-field search
ProbeQueryParams ==
  [ customObjectKey : ValidKeys, filterCriteria : FilterInputs,
    searchBySingleField : SearchInputs, translateFn : CallbackInputs,
    refetchOnTabChange : {Bool(TRUE)}, reactQueryOptions : {Undef} ]

NextQuery ==
  \/ \E params \in ProbeQueryParams : MountQuery(1, params, Provider)
  \/ UnmountQuery(1)
  \/ Refetch(1)
  \/ \E qk \in QueryKeys : QueryResolves(qk)
  \/ \E qk \in QueryKeys : QueryRejects(qk)

SpecQuery == Init /\ [][NextQuery]_vars

\* SpecMutation: one mutation hook executed with every kind of payload
NextMutation ==
  \/ \E kind \in Kinds :
       \E params \in {p \in MutationParamInputs(kind) : p.customObjectKey \in ValidKeys} :
         MountMutation(kind, params, Provider)
  \/ UnmountMutation
  \/ \E v \in VarsInputs(writer.kind) : Execute(v)
  \/ ServerApplies
  \/ Resolve
  \/ \E error \in TransportErrors : Reject(error)

SpecMutation == Init /\ [][NextMutation]_vars

\* SpecStale: two query hooks on the users key, with either value of
\* refetchOnTabChange, the clock, focus events, and an insert hook writing
\* the key
StaleQueryParams ==
  [ customObjectKey : {Str(Users)}, filterCriteria : {Undef},
    searchBySingleField : {Undef}, translateFn : {Fn("returns")},
    refetchOnTabChange : {Bool(FALSE), Bool(TRUE)},
    reactQueryOptions : {Undef} ]
StaleMutationParams ==
  [customObjectKey |-> Str(Users), postActionFn |-> Undef, onSuccessFn |-> Undef]

NextStale ==
  \/ \E r \in Readers : \E params \in StaleQueryParams : MountQuery(r, params, Provider)
  \/ \E r \in Readers : UnmountQuery(r)
  \/ WindowFocus
  \/ Tick
  \/ MountMutation("insert", StaleMutationParams, Provider)
  \/ \E v \in ValidVarsOf(writer.kind) : Execute(v)
  \/ Transport

SpecStale == Init /\ [][NextStale]_vars

\* SpecShare: two query hooks on the users key, each with its own filter or
\* single-field search, and the clock
ShareQueryParams ==
  [ customObjectKey : {Str(Users)}, filterCriteria : {Undef, F1},
    searchBySingleField : {Undef, S1}, translateFn : {Fn("returns")},
    refetchOnTabChange : {Bool(FALSE)}, reactQueryOptions : {Undef} ]

NextShare ==
  \/ \E r \in Readers : \E params \in ShareQueryParams : MountQuery(r, params, Provider)
  \/ \E r \in Readers : UnmountQuery(r)
  \/ \E qk \in QueryKeys : QueryResolves(qk)
  \/ \E qk \in QueryKeys : QueryRejects(qk)
  \/ Tick

SpecShare == Init /\ [][NextShare]_vars

\* SpecAdapter: a transport adapter created with every kind of timeout and
\* fired with every kind of payload
NextAdapter ==
  \/ \E options \in AdapterOptionInputs, ctx \in {NoContext, Provider} :
       CreateAdapter(options, ctx)
  \/ DiscardAdapter
  \/ \E payload \in PayloadInputs : Fire(payload)
  \/ FireResolves
  \/ \E error \in AdapterErrors : FireRejects(error)

SpecAdapter == Init /\ [][NextAdapter]_vars

\* ------------------------------------------------------------------------
\* Properties
\* ------------------------------------------------------------------------
\* a value that is given: neither undefined nor null
Present(v) == v.t \notin {"undefined", "null"}
NonEmptyString(v) == v.t = "string" /\ Len(v.s) > 0

\* the text of the REST paths of the custom-object records API
RecordsPath(key) ==
  <<"/", "api", "/", "v2", "/", "custom_objects", "/">> \o key \o <<"/", "records">>

\* C1: a hook of any of the four kinds constructed with a resource key that
\* is empty, absent or not a string has failed with the key error, and no
\* request was issued for it: none by the instance, none in flight under
\* its key.
C1_InvalidKeyFailsAtConstruction ==
  /\ \A r \in Readers :
       (readers[r].status # "unmounted"
          /\ ~NonEmptyString(readers[r].params.customObjectKey))
       => /\ readers[r].status = "failed"
          /\ readers[r].error = <<"invalid customObjectKey">>
          /\ readers[r].sent = {}
          /\ cache[keyOf(r)] = NoEntry
  /\ (writer.kind # "none" /\ ~NonEmptyString(writer.params.customObjectKey))
     => /\ writer.status = "failed"
        /\ writer.thrown = <<"invalid customObjectKey">>
        /\ writer.sent = <<>>
        /\ writer.events = <<>>

C1_Witness ==
  /\ readers[1].status = "failed"
  /\ readers[1].params.customObjectKey = Str(<<>>)
  /\ readers[1].ctx = Provider
  /\ writer.kind = "delete"
  /\ writer.status = "failed"
  /\ writer.params.customObjectKey = Num(7)
  /\ writer.ctx = Provider

\* C2: a query hook given both a filter and a single-field search has failed
\* with the configuration error without any request; one given at most one
\* of them has not failed with that error.
C2_FilterAndSearchExclusive ==
  \A r \in Readers :
    (readers[r].status # "unmounted"
       /\ NonEmptyString(readers[r].params.customObjectKey)
       /\ readers[r].ctx # NoContext)
    => IF Present(readers[r].params.filterCriteria)
          /\ Present(readers[r].params.searchBySingleField)
       THEN /\ readers[r].status = "failed"
            /\ readers[r].error =
                 <<"You must choose either filterCriteria or searchBySingleField">>
            /\ readers[r].sent = {}
       ELSE /\ readers[r].status = "mounted"
            /\ readers[r].error = NoError

C2_Witness ==
  /\ readers[1].status = "failed"
  /\ readers[1].params.filterCriteria = F1
  /\ readers[1].params.searchBySingleField = S1
  /\ cache[keyOf(1)].hasData

\* C3: every request a query hook issues is a POST to
\* /api/v2/custom_objects/<key>/records/search, the key appearing once.
C3_SearchUrl ==
  \A r \in Readers : \A req \in readers[r].sent :
    /\ req.arg.type = "POST"
    /\ req.arg.url =
         RecordsPath(readers[r].params.customObjectKey.s) \o <<"/", "search">>

\* C4: the request of an execution is POST .../<key>/records for insert,
\* PUT .../<key>/records/<id> for update and DELETE .../<key>/records/<id>
\* for delete, <id> being the identifier passed to execute, and no
\* placeholder is left in the url.
C4_MutationUrls ==
  \A i \in 1..Len(writer.sent) :
    LET req == writer.sent[i].arg
        records == RecordsPath(writer.params.customObjectKey.s)
    IN /\ writer.kind = "insert" => req.type = "POST" /\ req.url = records
       /\ writer.kind = "update" =>
            req.type = "PUT" /\ req.url = records \o <<"/">> \o writer.vars.id.s
       /\ writer.kind = "delete" =>
            req.type = "DELETE" /\ req.url = records \o <<"/">> \o writer.vars.id.s
       /\ \A j \in 1..Len(req.url) : req.url[j] \notin {"{", "}"}

C4_Witness ==
  /\ writer.kind = "update"
  /\ writer.status = "success"
  /\ writer.vars.id = Str(<<"01HZX">>)
  /\ writer.params.customObjectKey = Str(Orders)
  /\ Len(writer.sent) = 1

\* C5: the body of a search request is the single equality clause on
\* custom_object_fields.<by> when a single-field search is given, the filter
\* unchanged when only a filter is given, and the empty object otherwise.
C5_SearchBody ==
  \A r \in Readers : \A req \in readers[r].sent :
    LET search == readers[r].params.searchBySingleField
        filter == readers[r].params.filterCriteria
        body == req.arg.data.json
    IN /\ req.arg.data.t = "string"
       /\ IF Present(search)
          THEN /\ body.o[1].k = <<"$and">>
               /\ Len(body.o) = 1
               /\ Len(body.o[1].v.a) = 1
               /\ body.o[1].v.a[1] =
                    Obj(<< [k |-> <<"custom_object_fields", ".">> \o Get(search, <<"by">>).s,
                            v |-> Obj(<< [k |-> <<"$eq">>,
                                          v |-> Get(search, <<"value">>)] >>)] >>)
          ELSE IF Present(filter) THEN body = filter
          ELSE body = Obj(<< >>)

C5_Witness ==
  /\ readers[1].status = "mounted"
  /\ readers[1].params.searchBySingleField = S1
  /\ readers[1].params.filterCriteria = Null
  /\ readers[1].sent # {}

\* C6: an insert execution whose name is not a non-empty string, or whose
\* custom_object_fields is absent or not an object, has failed without a
\* request; any other execution has issued exactly the create request.
ExecutedInsert == writer.kind = "insert" /\ writer.status \notin {"failed", "idle"}

C6_InsertValidation ==
  ExecutedInsert =>
    IF ~NonEmptyString(writer.vars.name)
       \/ writer.vars.custom_object_fields.t # "object"
    THEN /\ writer.status = "error"
         /\ writer.error \in {NameError, FieldsError}
         /\ writer.sent = <<>>
    ELSE /\ writer.error \notin {NameError, FieldsError}
         /\ Len(writer.sent) = 1
         /\ writer.sent[1].arg.type = "POST"
         /\ writer.sent[1].arg.url = RecordsPath(writer.params.customObjectKey.s)
         /\ writer.sent[1].arg.data.json =
              Obj(<< [k |-> <<"custom_object_record">>,
                      v |-> Obj(<< [k |-> <<"name">>, v |-> writer.vars.name],
                                   [k |-> <<"custom_object_fields">>,
                                    v |-> writer.vars.custom_object_fields] >>)] >>)

C6_Witness ==
  /\ ExecutedInsert
  /\ writer.vars.name = Str(<<"x">>)
  /\ writer.vars.custom_object_fields = Obj(<< >>)
  /\ writer.status = "pending"
  /\ Len(writer.sent) = 1

\* the names of the calls of an execution's onSuccess, in the order made
RECURSIVE Names(_)
Names(calls) == IF calls = <<>> THEN <<>> ELSE <<calls[1].e>> \o Names(Tail(calls))

\* the names a handler is to call when every call returns: those of `order`
\* whose callback is supplied
Supplied(params, order) ==
  SelectSeq(order, LAMBDA n :
    CASE n = "onSuccessFn" -> Present(params.onSuccessFn)
      [] n = "postActionFn" -> Present(params.postActionFn)
      [] OTHER -> TRUE)

IsPrefix(a, b) == Len(a) <= Len(b) /\ SubSeq(b, 1, Len(a)) = a

UsersKey == << Str(<<"query", "-", "custom", "-", "objects", "-", "users">>), Str(Users) >>
OrdersKey == << Str(<<"query", "-", "custom", "-", "objects", "-", "orders">>), Str(Orders) >>

\* the step in which an execution of the given kind succeeds
Succeeds(kind) ==
  /\ writer.kind = kind
  /\ writer.status = "applied"
  /\ writer'.status = "success"

\* C7: the step in which an insert for key k succeeds invalidates the cached
\* reads of k and then calls postActionFn when supplied; the cached reads of
\* every other key are left as they were.
C7_InsertInvalidatesThenCallsBack ==
  [][ Succeeds("insert") =>
        /\ Names(writer'.events) =
             Supplied(writer.params, <<"invalidateQueries", "postActionFn">>)
        /\ writer'.events[1].arg =
             Str(<<"query", "-", "custom", "-", "objects", "-">>
                 \o writer.params.customObjectKey.s)
        /\ \A qk \in QueryKeys :
             IF qk[2] = writer.params.customObjectKey
             THEN cache'[qk].isInvalidated
             ELSE cache'[qk] = cache[qk] ]_vars

C7_Witness ==
  /\ writer.kind = "insert"
  /\ writer.status = "success"
  /\ Names(writer.events) = <<"invalidateQueries", "postActionFn">>
  /\ cache[UsersKey].hasData
  /\ cache[UsersKey].isInvalidated
  /\ cache[OrdersKey].hasData
  /\ ~cache[OrdersKey].isInvalidated
  /\ cache[OrdersKey].inflight = NoRequest

\* C8: in a delete execution nothing of onSuccess happens before the request
\* has succeeded, and what happens is, in this order, onSuccessFn, the
\* invalidation and postActionFn, an absent callback being skipped; a
\* successful execution has made all of the calls.
C8_DeleteSuccessOrder ==
  writer.kind = "delete" =>
    LET order == Supplied(writer.params,
                          <<"onSuccessFn", "invalidateQueries", "postActionFn">>)
    IN /\ IsPrefix(Names(writer.events), order)
       /\ writer.status \in {"failed", "idle", "pending", "applied"}
            => writer.events = <<>>
       /\ writer.status = "success" => Names(writer.events) = order
       /\ writer.events # <<>> => Len(writer.sent) = 1

C8_Witness ==
  /\ writer.kind = "delete"
  /\ writer.status = "success"
  /\ Names(writer.events) = <<"onSuccessFn", "invalidateQueries", "postActionFn">>

\* a query hook is mounted on the users key in this step
MountsOnUsers ==
  /\ readers[1].status = "unmounted"
  /\ readers'[1].status = "mounted"
  /\ readers'[1].params.customObjectKey = Str(Users)

\* the users entry holds a value cached before the delete that has succeeded,
\* still inside its freshness window, and no search is in flight
CachedBeforeDelete ==
  /\ writer.kind = "delete"
  /\ writer.status = "success"
  /\ cache[UsersKey].hasData
  /\ cache[UsersKey].data.v < server[Users]
  /\ now - cache[UsersKey].dataUpdatedAt < 60000
  /\ cache[UsersKey].inflight = NoRequest

\* C9: the step in which a delete succeeds marks the cached reads of its key
\* invalidated and refetches them for a mounted query hook, and a query hook
\* mounted next on a value cached before the delete issues a new search
\* request, although the value is inside its freshness window.
C9_QueryAfterDeleteRefetches ==
  [][ /\ Succeeds("delete")
        => /\ cache'[UsersKey].isInvalidated
           /\ (readers[1].status = "mounted" /\ cache[UsersKey].hasData
                 /\ readers[1].params.customObjectKey = Str(Users))
              => cache'[UsersKey].inflight # NoRequest
      /\ (MountsOnUsers /\ CachedBeforeDelete)
        => /\ cache'[UsersKey].inflight # NoRequest
           /\ cache'[UsersKey].inflight \in readers'[1].sent
           /\ cache'[UsersKey].inflight.arg.type = "POST" ]_vars

C9_Witness ==
  /\ writer.kind = "delete"
  /\ writer.status = "success"
  /\ readers[1].status = "mounted"
  /\ cache[UsersKey].hasData
  /\ cache[UsersKey].data.v < server[Users]
  /\ now - cache[UsersKey].dataUpdatedAt < 60000
  /\ cache[UsersKey].isInvalidated
  /\ cache[UsersKey].inflight \in readers[1].sent

\* C10: a successful update has called onSuccessFn with the identifier passed
\* to execute and then postActionFn; postActionFn is never called before
\* onSuccessFn, nor after an onSuccessFn that has not returned.
C10_UpdateSuccessOrder ==
  writer.kind = "update" =>
    LET order == Supplied(writer.params, <<"onSuccessFn", "postActionFn">>)
    IN /\ IsPrefix(Names(writer.events), order)
       /\ writer.status = "success" => Names(writer.events) = order
       /\ \A i \in 1..Len(writer.events) :
            /\ writer.events[i].e = "onSuccessFn" =>
                 writer.events[i].arg = writer.vars.id
                 /\ NonEmptyString(writer.vars.id)
            /\ writer.events[i].e = "postActionFn" =>
                 \A j \in 1..(i - 1) : writer.events[j].fn.f = "returns"

C10_Witness ==
  /\ writer.kind = "update"
  /\ writer.status = "success"
  /\ Len(writer.events) = 2
  /\ writer.events[1].arg = Str(<<"01HZX">>)

\* C11: a successful update has called, in this order, onSuccessFn, the
\* invalidation of the cached reads of its resource key and postActionFn, and
\* has left the cached reads of its key invalidated.
C11_UpdateInvalidates ==
  (writer.kind = "update" /\ writer.status = "success") =>
    /\ Names(writer.events) =
         Supplied(writer.params, <<"onSuccessFn", "invalidateQueries", "postActionFn">>)
    /\ \A qk \in QueryKeys :
         (qk[2] = writer.params.customObjectKey /\ cache[qk].hasData
            /\ cache[qk].data.v < server[ToStr(qk[2])])
         => cache[qk].isInvalidated \/ cache[qk].inflight # NoRequest

\* an execution of update or delete has been made
ExecutedById ==
  writer.kind \in {"update", "delete"} /\ writer.status \notin {"failed", "idle"}

\* C12: an update or delete execution whose identifier is absent, empty or
\* not a string has failed with the identifier error without a request and
\* without a success callback, whatever the field mapping; any other
\* execution has issued its request; and a hook that has not executed has
\* not failed for an identifier.
C12_IdValidatedAtExecute ==
  /\ ExecutedById =>
       IF ~NonEmptyString(writer.vars.id)
       THEN /\ writer.status = "error"
            /\ writer.error =
                 (IF writer.kind = "update"
                  THEN <<"invalid recordId - must be provided in the mapped data">>
                  ELSE <<"invalid record id">>)
            /\ writer.sent = <<>>
            /\ writer.events = <<>>
       ELSE /\ Len(writer.sent) = 1
            /\ writer.error \notin {UpdateIdError, DeleteIdError}
  /\ (writer.kind \in {"update", "delete"} /\ ~ExecutedById) =>
       /\ writer.error \notin {UpdateIdError, DeleteIdError}
       /\ (NonEmptyString(writer.params.customObjectKey) /\ writer.ctx # NoContext)
            => writer.status = "idle"

C12_Witness ==
  /\ writer.kind = "update"
  /\ writer.status = "error"
  /\ writer.vars.id = Num(42)
  /\ writer.vars.custom_object_fields = Obj(<< [k |-> <<"a">>, v |-> Num(1)] >>)
  /\ writer.vars.name = Str(<<"x">>)
  /\ writer.sent = <<>>

\* C13: an update or delete execution that has failed, for an identifier or
\* for the transport, rejects with the fixed error naming the resource key,
\* the same for every cause, while the cause is what the hook's error state
\* holds.
C13_FixedErrorOnFailure ==
  (writer.kind \in {"update", "delete"} /\ writer.status = "error") =>
    /\ writer.thrown =
         (IF writer.kind = "update"
          THEN <<"Error updating custom object record with key ">>
          ELSE <<"Error deleting custom object record with key ">>)
         \o writer.params.customObjectKey.s
    /\ writer.error # NoError
    /\ writer.error # writer.thrown

C13_Witness ==
  /\ writer.kind = "delete"
  /\ writer.status = "error"
  /\ writer.error = <<"timeout">>
  /\ Len(writer.sent) = 1
  /\ writer.thrown = <<"Error deleting custom object record with key ", "orders">>

\* C14: an insert execution that has failed, in validation or in the
\* transport, rejects with the error of the failure itself, which is also
\* the hook's error, and the hook accepts a further execute.
C14_InsertFailureSurfaces ==
  (writer.kind = "insert" /\ writer.status = "error") =>
    /\ writer.error # NoError
    /\ writer.thrown = writer.error
    /\ writer.error \in
         {NameError, FieldsError} \cup {fireError(e) : e \in TransportErrors}
    /\ writer.events = <<>>
    /\ ENABLED Execute([ name |-> Undef, custom_object_fields |-> Undef, id |-> Undef ])

C14_Witness ==
  /\ writer.kind = "insert"
  /\ writer.status = "error"
  /\ writer.error = <<"timeout">>
  /\ Len(writer.sent) = 1

\* the names of the entries of an object
RECURSIVE EntryNames(_)
EntryNames(entries) ==
  IF entries = <<>> THEN {} ELSE {entries[1].k} \cup EntryNames(Tail(entries))

\* C15: the record of an update request's body has a name exactly when the
\* name passed to execute is present and not empty, the name then being the
\* one passed, and its custom_object_fields are the field mapping passed.
C15_UpdateBodyName ==
  (writer.kind = "update" /\ Len(writer.sent) = 1) =>
    LET body == writer.sent[1].arg.data.json
        record == Get(body, <<"custom_object_record">>)
        named == Present(writer.vars.name) /\ writer.vars.name # Str(<<>>)
    IN /\ writer.sent[1].arg.data.t = "string"
       /\ EntryNames(body.o) = {<<"custom_object_record">>}
       /\ EntryNames(record.o) =
            (IF writer.vars.custom_object_fields # Undef
             THEN {<<"custom_object_fields">>} ELSE {})
            \cup (IF named THEN {<<"name">>} ELSE {})
       /\ named => Get(record, <<"name">>) = writer.vars.name
       /\ Get(record, <<"custom_object_fields">>) = writer.vars.custom_object_fields

C15_Witness ==
  /\ writer.kind = "update"
  /\ Len(writer.sent) = 1
  /\ writer.vars.name = Str(<<>>)
  /\ writer.vars.custom_object_fields = Obj(<< [k |-> <<"a">>, v |-> Num(1)] >>)
  /\ writer.status = "success"

\* a search request is issued for the query in this step
Issued(qk) == cache[qk].inflight = NoRequest /\ cache'[qk].inflight # NoRequest

\* the step is a mount of a query hook or a focus event
MountStep == \E r \in Readers : ~Mounted(r) /\ readers'[r].status = "mounted"
FocusStep ==
  /\ writer' = writer
  /\ \A r \in Readers : readers'[r].status = readers[r].status

\* the cached result is inside the one-minute window of its fetch
InsideWindow(qk) == cache[qk].hasData /\ now - cache[qk].dataUpdatedAt < 60000

\* a focus event issues a request only for a query that a mounted hook with
\* refetchOnTabChange set observes, and that hook issues it
FocusGated(qk) ==
  (FocusStep /\ Issued(qk)) =>
    \E r \in Readers :
      /\ Mounted(r) /\ keyOf(r) = qk
      /\ readers[r].params.refetchOnTabChange = Bool(TRUE)
      /\ cache'[qk].inflight \in readers'[r].sent

\* C16 as claimed: no mount of a hook and no focus event issues a request
\* inside the one-minute window of the last successful fetch, and a focus
\* event issues none for hooks whose refetchOnTabChange is false.
C16_NoRefetchInsideWindow ==
  [][ \A qk \in QueryKeys :
        /\ ((MountStep \/ FocusStep) /\ InsideWindow(qk)) => ~Issued(qk)
        /\ FocusGated(qk) ]_vars

\* C16 as amended: the same for a cached result that no insert or delete has
\* invalidated since it was fetched.
C16_NoRefetchInsideWindowUnlessInvalidated ==
  [][ \A qk \in QueryKeys :
        /\ ((MountStep \/ FocusStep) /\ InsideWindow(qk) /\ ~cache[qk].isInvalidated)
             => ~Issued(qk)
        /\ FocusGated(qk) ]_vars

C16_Witness ==
  /\ Mounted(1) /\ Mounted(2)
  /\ readers[2].params.refetchOnTabChange = Bool(TRUE)
  /\ cache[UsersKey].hasData
  /\ ~cache[UsersKey].isInvalidated
  /\ cache[UsersKey].dataUpdatedAt = 0
  /\ now = 30000
  /\ readers[1].sent # {}
  /\ readers[2].sent = {}
  /\ cache[UsersKey].inflight = NoRequest

RequestsOfHooks ==
  UNION {readers[r].sent : r \in Readers}
  \cup {cache[qk].inflight : qk \in {k \in QueryKeys : cache[k].inflight # NoRequest}}
  \cup {writer.sent[i] : i \in 1..Len(writer.sent)}

\* C18: every request a hook has handed to the host, whatever the hook, the
\* method and the outcome, carries the one header Content-Type:
\* application/json and the secure flag.
C18_HeadersAndSecure ==
  \A req \in RequestsOfHooks :
    /\ req.arg.headers =
         << [k |-> <<"Content", "-", "Type">>, v |-> <<"application", "/", "json">>] >>
    /\ req.arg.secure = TRUE

C18_Witness ==
  /\ writer.kind = "delete"
  /\ writer.status = "error"
  /\ Len(writer.sent) = 1
  /\ writer.sent[1].arg.type = "DELETE"
  /\ readers[1].sent # {}
  /\ cache[UsersKey].hasData

\* C19: a request of an adapter created with a timeout carries that timeout,
\* and a request of an adapter created without one carries 15000.
C19_TimeoutCarried ==
  adapter.request # NoRequest =>
    adapter.request.arg.timeout =
      (IF Present(adapter.client.timeout) THEN adapter.client.timeout.n ELSE 15000)

\* the remote write of the pending execution completes in this step
RemoteCompletes == writer.status = "pending" /\ writer'.status = "applied"

\* the cached reads of users are served as they were before a remote write
\* that has completed
ServedBeforeInvalidation(r) ==
  /\ writer.kind \in {"insert", "delete"}
  /\ writer.status = "applied"
  /\ writer.params.customObjectKey = Str(Users)
  /\ Mounted(r) /\ keyOf(r) = UsersKey
  /\ cache[UsersKey].hasData
  /\ ~cache[UsersKey].isInvalidated
  /\ cache[UsersKey].inflight = NoRequest
  /\ cache[UsersKey].data.v < server[Users]
  /\ readers[r].data = Translated(readers[r].params.translateFn, cache[UsersKey].data)

OwnBody(params) ==
  CASE Present(params.searchBySingleField) ->
         Obj(<< [k |-> <<"$and">>,
                 v |-> Arr(<< Obj(<< [k |-> <<"custom_object_fields", ".", "status">>,
                                      v |-> Obj(<< [k |-> <<"$eq">>,
                                                   v |-> Str(<<"active">>)] >>)] >>) >>)] >>)
    [] Present(params.filterCriteria) -> params.filterCriteria
    [] OTHER -> Obj(<< >>)

\* reader r mounts in this step
Mounts(r) == readers[r].status = "unmounted" /\ readers'[r].status = "mounted"

\* the entry holds a response that is fresh: fetched less than a minute ago
\* and not invalidated
Fresh(qk) ==
  /\ cache[qk].hasData
  /\ ~cache[qk].isInvalidated
  /\ now - cache[qk].dataUpdatedAt < 60000

\* C21: two mounted query hooks with the same resource key read one cache
\* entry whatever their criteria, and a hook that mounts while the entry is
\* fresh issues no request and is served the response the entry holds, which
\* was fetched for the criteria of the hook that issued the request.
C21_CacheKeyByResourceKeyOnly ==
  [][ /\ \A r1, r2 \in Readers :
           (Mounted(r1) /\ Mounted(r2)
              /\ readers[r1].params.customObjectKey = readers[r2].params.customObjectKey)
           => keyOf(r1) = keyOf(r2)
      /\ \A r \in Readers :
           (Mounts(r) /\ Fresh(UsersKey)) =>
             /\ readers'[r].sent = {}
             /\ cache'[UsersKey].inflight = cache[UsersKey].inflight
             /\ cache'[UsersKey].data = cache[UsersKey].data
             /\ readers'[r].data =
                  [t |-> "translated", by |-> "returns", of |-> cache[UsersKey].data] ]_vars

C21_Witness ==
  /\ Mounted(1) /\ Mounted(2)
  /\ readers[1].params.searchBySingleField = S1
  /\ readers[2].params.filterCriteria = F1
  /\ readers[2].params.searchBySingleField = Undef
  /\ Fresh(UsersKey)
  /\ readers[1].sent # {}
  /\ readers[2].sent = {}
  /\ cache[UsersKey].inflight = NoRequest
  /\ readers[2].data.of = cache[UsersKey].data
  /\ cache[UsersKey].data.body.json = OwnBody(readers[1].params)
  /\ cache[UsersKey].data.body.json # OwnBody(readers[2].params)

\* the onSuccess of a delete whose request has succeeded runs in this step
\* with an onSuccessFn that throws
DeleteCallbackThrows ==
  /\ writer.kind = "delete"
  /\ writer.status = "applied"
  /\ writer'.status # "applied"
  /\ writer.params.onSuccessFn = Fn("throws")

\* C22: when onSuccessFn throws after a successful delete request, the
\* handler has called nothing but onSuccessFn: the cached reads of the key
\* are as they were, not invalidated and not refetched, postActionFn is not
\* called, and the record is deleted on the service.
C22_DeleteCallbackThrowSkipsInvalidation ==
  [][ DeleteCallbackThrows =>
        /\ writer'.status = "error"
        /\ Names(writer'.events) = <<"onSuccessFn">>
        /\ cache' = cache
        /\ readers' = readers
        /\ server'[Users] = server[Users]
        /\ server[Users] > 0 ]_vars

C22_Witness ==
  /\ writer.kind = "delete"
  /\ writer.status = "error"
  /\ Names(writer.events) = <<"onSuccessFn">>
  /\ writer.params.postActionFn = Fn("returns")
  /\ Mounted(1) /\ keyOf(1) = UsersKey
  /\ cache[UsersKey].hasData
  /\ ~cache[UsersKey].isInvalidated
  /\ cache[UsersKey].inflight = NoRequest
  /\ cache[UsersKey].data.v < server[Users]

\* the mutation function of the execution fails in this step, in its
\* validation or by a failure of the transport
MutationFnFails ==
  /\ writer.status \in {"idle", "success", "error", "pending"}
  /\ writer'.kind = writer.kind
  /\ writer'.status = "error"

\* C23: an execution whose mutation function fails calls neither onSuccessFn
\* nor postActionFn and invalidates nothing; whatever an execution has called
\* of its success handler, its one request had been applied by the service.
C23_NoCallbacksOnFailure ==
  [][ /\ MutationFnFails =>
           /\ writer'.events = <<>>
           /\ cache' = cache
           /\ readers' = readers
      /\ writer.events # <<>> =>
           /\ Len(writer.sent) = 1
           /\ server[ToStr(writer.params.customObjectKey)] > 0
           /\ writer.error \notin
                {NameError, FieldsError, UpdateIdError, DeleteIdError}
                \cup {fireError(e) : e \in TransportErrors} ]_vars

C23_Witness ==
  /\ writer.kind = "update"
  /\ writer.params.onSuccessFn = Fn("returns")
  /\ writer.params.postActionFn = Fn("returns")
  /\ writer.status = "error"
  /\ writer.error = <<"[object Object]">>
  /\ Len(writer.sent) = 1
  /\ writer.events = <<>>

\* the fire of the adapter has ended
FireEnded == adapter.outcome \in {"returned", "threw"}

\* C24: a fire whose zaf.request was rejected has thrown a new Error and
\* returned nothing: one made of the text of the rejection when the
\* rejection has no status, or a status that is 0 or otherwise falsy, and
\* one made of the rejection itself when it has a status; a fire that has
\* returned was not rejected.
C24_FireErrorWrapping ==
  /\ adapter.outcome = "returned" =>
       adapter.rejection = NoRejection /\ adapter.thrown = NoRejection
  /\ adapter.outcome = "threw" =>
       LET e == adapter.rejection
           status == IF e.t = "object" THEN GetEntry(e.o, <<"status">>) ELSE Undef
           text == IF e.t = "string" THEN e.s ELSE <<"[object Object]">>
       IN /\ e # NoRejection
          /\ adapter.status = "ready"
          /\ adapter.thrown # e
          /\ adapter.thrown.t = "Error"
          /\ IF status \in {Undef, Null, Num(0), Str(<<>>), Bool(FALSE)}
             THEN adapter.thrown.arg = Str(text)
             ELSE adapter.thrown.arg = e

C24_Witness ==
  /\ adapter.outcome = "threw"
  /\ adapter.rejection =
       Obj(<< [k |-> <<"status">>, v |-> Num(0)],
              [k |-> <<"statusText">>, v |-> Str(<<"error">>)] >>)
  /\ adapter.thrown = [t |-> "Error", arg |-> Str(<<"[object Object]">>)]

\* the adapter has handed a request to zaf.request
Fired == adapter.request # NoRequest

\* the payload of the delete hook for record 42
DeleteOf42 == deletePayload([id |-> Str(<<"42">>)])

\* C25 as claimed: the request has no body exactly when the payload's data
\* is null, and for every other data, undefined included, its body is the
\* JSON text of the data; the payload of the delete hook has no body.
C25_BodyOmittedExactlyForNull ==
  Fired =>
    /\ adapter.request.arg.data = Undef <=> adapter.payload.data = Null
    /\ adapter.payload.data # Null =>
         adapter.request.arg.data = [t |-> "string", json |-> adapter.payload.data]
    /\ adapter.payload = DeleteOf42 => adapter.request.arg.data = Undef

\* C25 as amended: the request has no body exactly when the payload's data
\* is null or has no JSON text, as undefined and a function have none, and
\* for an object, the empty one included, its body is the JSON text of the
\* object; the payload of the delete hook has no body.
C25_BodyOmittedForNullAndUndefined ==
  Fired =>
    /\ adapter.request.arg.data = Undef
         <=> (adapter.payload.data \in {Null, Undef} \/ adapter.payload.data.t = "function")
    /\ adapter.payload.data.t = "object" =>
         adapter.request.arg.data = [t |-> "string", json |-> adapter.payload.data]
    /\ adapter.payload = DeleteOf42 => adapter.request.arg.data = Undef

C25_Witness ==
  /\ adapter.outcome = "returned"
  /\ adapter.payload.data = Obj(<< >>)
  /\ adapter.payload.method = "POST"
  /\ adapter.request.arg.data = [t |-> "string", json |-> Obj(<< >>)]

TemplatedPath(payload) ==
  IF payload.pathParams = Obj(<< [k |-> <<"id">>, v |-> Str(<<"42">>)] >>)
  THEN CASE payload.endpoint = <<"/", "records", "/", "{", "id", "}">> ->
              <<"/", "records", "/", "42">>
         [] payload.endpoint = <<"/", "records", "/", "{", "id", "}", "/", "{", "id", "}">> ->
              <<"/", "records", "/", "42", "/", "{", "id", "}">>
         [] OTHER -> payload.endpoint
  ELSE payload.endpoint

\* the query a payload's params give
TemplatedQuery(payload) ==
  CASE payload.params = Undef -> << >>
    [] payload.params = Obj(<< [k |-> <<"q">>, v |-> Str(<<"{", "id", "}">>)] >>) ->
         <<"?", "q", "=", "{", "id", "}">>
    [] OTHER -> <<"?", "a", "=", "1", "&", "b", "=", "x">>

\* C27: the url of a request is the base, the resource key, the endpoint
\* with the first {key} of each key of pathParams replaced by its value, an
\* endpoint without the key being left as it is, and then, when params are
\* given, `?` with the key=value pairs in order joined by `&`, so that a
\* {id} among the query values is not replaced; each templating is skipped
\* when its mapping is absent.
C27_Templating ==
  Fired =>
    adapter.request.arg.url =
      <<"/", "api", "/", "v2", "/", "custom_objects", "/", "users">>
      \o TemplatedPath(adapter.payload) \o TemplatedQuery(adapter.payload)

C27_Witness ==
  /\ Fired
  /\ adapter.payload.endpoint = <<"/", "records", "/", "{", "id", "}", "/", "{", "id", "}">>
  /\ adapter.payload.pathParams = Obj(<< [k |-> <<"id">>, v |-> Str(<<"42">>)] >>)
  /\ adapter.payload.params = Obj(<< [k |-> <<"a">>, v |-> Num(1)],
                                    [k |-> <<"b">>, v |-> Str(<<"x">>)] >>)
  /\ adapter.request.arg.url =
       <<"/", "api", "/", "v2", "/", "custom_objects", "/", "users", "/", "records",
         "/", "42", "/", "{", "id", "}", "?", "a", "=", "1", "&", "b", "=", "x">>

====
